---- MODULE Spec2Model ----
(***************************************************************************)
(* Schema mapping service of the toolkit (src/src/shared/schemas.ts):      *)
(* SchemaService.registerMapping / processUpdates / startTimer, and the    *)
(* JSON and YAML schema handlers the drain loop dispatches to.             *)
(*                                                                         *)
(* JavaScript runs every callback to completion; other callbacks run only  *)
(* while an async function is suspended on real I/O.  One action of the    *)
(* model is one such run: from a callback's start (or the completion of    *)
(* the I/O it awaited) to its next suspension on I/O.  Awaits of promises  *)
(* that are already settled are followed within the same action.           *)
(***************************************************************************)
EXTENDS Integers, Sequences, FiniteSets, TLC

VARIABLES
    updateQueue,   \* SchemaService.updateQueue: sequence of mappings
    owned,         \* SchemaService.owned: Uri -> mapping (NoMapping = no entry)
    schemas,       \* SchemaService.schemas: [isSet, keys]
    handlers,      \* SchemaService.handlers: the types that have a handler
    timer,         \* the drain timer: "unset" | "armed" | "running" | "dead"
    drains,        \* processUpdates calls suspended on a handler's I/O
    jsonSettings,  \* the 'json.schemas' setting: sequence of [fileMatch, url]
    jsonClean,     \* JsonSchemaHandler.clean (once): "never" | "pending" | "done"
    yamlExtension, \* YamlSchemaHandler.yamlExtension is defined
    yamlSchemas,   \* the schema the activated YAML extension holds per Uri
    log,           \* history: handler events <<kind, mapping id>> in order
    regs,          \* history: number of registerMapping calls so far
    accepted,      \* history: the ids of the mappings pushed on the queue, in order
    lastOp,        \* history: the operation that produced this state
    globalState,   \* extensionContext.globalState: cache key -> version
    files,         \* the schema file at each kind's destination (None = no file)
    download,      \* getDefaultSchemas: its position, the manifest version, its table
    lastCall,      \* history: the last updateSchemaFromRemote call
    schemaMap,     \* activateYamlExtension's schemaMap: path -> registry -> schema
    lastRegistry   \* history: the last assignSchema / removeSchema call

downloadVars == <<globalState, files, download, lastCall>>

registryVars == <<schemaMap, lastRegistry>>

vars == <<updateQueue, owned, schemas, handlers, timer, drains, jsonSettings,
          jsonClean, yamlExtension, yamlSchemas, log, regs, accepted, lastOp,
          globalState, files, download, lastCall, schemaMap, lastRegistry>>

\* ---------------------------------------------------------------- bounds
\* registerMapping calls in one behaviour
MaxRegs == 3

\* ---------------------------------------------------------------- values
\* JavaScript's undefined
None == "undefined"

\* The documents (vscode.Uri objects) callers register, with the type each
\* is registered under.
Uris == {"doc1", "doc2", "doc3"}
TypeOfDoc == [doc1 |-> "json", doc2 |-> "yaml", doc3 |-> "json"]
Owners == {"featureA", "featureB"}

NoMapping == [id |-> 0, uri |-> None, type |-> None, owner |-> None, schema |-> None]

Mapping(u, o, s) == [id |-> 0, uri |-> u, type |-> TypeOfDoc[u], owner |-> o, schema |-> s]

\* The mappings registerMapping is called with in Spec (id is given at the
\* call): ownerless mappings for a JSON and a YAML document
Inputs == {Mapping(u, None, s) : u \in {"doc1", "doc2"}, s \in {"cfn", None}}

\* The mappings registerMapping is called with in SpecOwn: every combination
\* of owner and schema for one document
OwnInputs == {Mapping("doc2", o, s) : o \in Owners \cup {None}, s \in {"cfn", "sam", None}}

\* The handler maps a service is constructed with: the default one, and one
\* passed in opts.handlers that has no YAML handler
HandlerMaps == {{"json", "yaml"}, {"json"}}

\* The tables getDefaultSchemas can resolve to that the model draws from:
\* every kind resolved, and only buildspec resolved (the manifest failed)
ResolvableTables == {{"cfn", "sam", "buildspec"}, {"buildspec"}}

\* cfnSchemaUri / samSchemaUri / buildSpecSchemaUri, as schema.toString()
SchemaLocation ==
    [cfn |-> "file:///storage/cloudformation.schema.json",
     sam |-> "file:///storage/sam.schema.json",
     buildspec |-> "file:///storage/buildspec.schema.json"]

\* normalizeVSCodeUri(mapping.uri): the document's normalized file path
NormalizeVSCodeUri ==
    [doc1 |-> "/ws/doc1.json", doc2 |-> "/ws/doc2.yaml", doc3 |-> "/ws/doc3.json"]

Ids(seq) == [k \in 1..Len(seq) |-> seq[k].id]
Range(seq) == {seq[k] : k \in 1..Len(seq)}

\* ------------------------------------------------------------ downloads
\* The schema kinds of getDefaultSchemas and the cache key of each
Kinds == {"cfn", "sam", "buildspec"}

CacheKey ==
    [cfn |-> "cfnSchemaVersion", sam |-> "samSchemaVersion",
     buildspec |-> "buildSpecSchemaVersion"]

CacheKeys == {CacheKey[k] : k \in Kinds}

\* The tag_name values the goformation manifest can give, and undefined when
\* the manifest cannot be fetched
ManifestVersions == {"v1", "v2", None}

\* getStringHash(contents) of what a buildspec source serves, and undefined
\* when getFromUrl gives nothing
BuildspecVersions == {"h1", None}

\* How far one updateSchemaFromRemote call that fetches gets: the first step
\* that fails (the http fetch gives no content, JSON.parse throws,
\* createDirectory throws, writeFile throws, globalState.update rejects), or
\* "stored" when every step succeeds.  A step that fails has no effect: a
\* failed writeFile leaves the destination as it was, a rejected
\* globalState.update leaves the key as it was
Outcomes ==
    {"fetchFailed", "parseFailed", "mkdirFailed", "writeFailed", "cacheRejected",
     "stored"}

\* The file a successful download of the given version writes: the parsed
\* content with the title field set
SchemaFile(version) ==
    CASE version = "v1" -> "{v1 schema, title}"
      [] version = "v2" -> "{v2 schema, title}"
      [] version = "h1" -> "{h1 schema, title}"
      [] OTHER -> "{schema, title}"

\* No updateSchemaFromRemote call yet
NoCall ==
    [n |-> 0, by |-> "none", kind |-> None, version |-> None, out |-> None,
     fetches |-> 0, result |-> "none", cachedVersion |-> None, cachedContent |-> None,
     before |-> <<None, None, None>>]

\* ------------------------------------------------------- YAML registry
\* The paths and registries assignSchema / removeSchema are called with
\* (registries are the names of the features that contribute schemas;
\* undefined when the caller gives none), and the schemas assigned
YamlPaths == {"/ws/doc2.yaml", "/ws/other.yaml"}

Registries == {"featureA", "featureB"}

\* What a caller may pass as `registry: string | undefined`
RegistryInputs == Registries \cup {"", None}

RegistrySchemas == {SchemaLocation["cfn"], SchemaLocation["sam"]}

\* `new Map()` of activateYamlExtension: no path has an inner map.  An inner
\* map is the sequence of its [registry, schema] entries in insertion order
NoSchemaMap == [p \in YamlPaths |-> [has |-> FALSE, entries |-> <<>>]]

\* history: the last call, and per path the registries that called
\* assignSchema and have not called removeSchema since
NoRegistryOp ==
    [name |-> "none", path |-> None, registry |-> None, schema |-> None,
     assigned |-> [p \in YamlPaths |-> {}]]

\* this.owned.has(uri)
OwnedHas(own, uri) == own[uri] # NoMapping

\* Mutant: claims an unclaimed Uri for a mapping without a schema too
IsOwnerUndefined_AnySchema(own, m) == ~OwnedHas(own, m.uri) /\ m.owner # None

IsOwnerUndefined(own, m) ==
    ~OwnedHas(own, m.uri) /\ m.owner # None /\ m.schema # None

\* Mutant: reclaims for every owner-bearing mapping, changed schema or not
IsSchemaChanged_NoCompare(own, m) == OwnedHas(own, m.uri) /\ m.owner # None

\* Mutant: a removal (absent schema) does not count as a changed schema
IsSchemaChanged_NotOnRemoval(own, m) ==
    OwnedHas(own, m.uri) /\ m.owner # None /\ m.schema # None
        /\ own[m.uri].schema # m.schema

IsSchemaChanged(own, m) ==
    OwnedHas(own, m.uri) /\ m.owner # None /\ own[m.uri].schema # m.schema

\* Mutant: a removal by the owner releases the ownership entry
ClaimStep_ReleaseOnRemoval(own, m) ==
    IF IsOwnerUndefined(own, m) \/ IsSchemaChanged(own, m)
    THEN [own EXCEPT ![m.uri] = IF m.schema = None THEN NoMapping ELSE m]
    ELSE own

\* lines 117-119: the claim step
ClaimStep(own, m) ==
    IF IsOwnerUndefined(own, m) \/ IsSchemaChanged(own, m)
    THEN [own EXCEPT ![m.uri] = m]
    ELSE own

\* Mutant: accepts every mapping for a Uri that has no ownership entry
IsAccepted_Unclaimed(own, m) == m.owner = own[m.uri].owner \/ ~OwnedHas(own, m.uri)

\* line 121: mapping.owner === this.owned.get(mapping.uri)?.owner
IsAccepted(own, m) == m.owner = own[m.uri].owner

\* ------------------------------------------------------------- handlers
\* The handlers' state as one value: the JSON setting, the once-guard of the
\* JSON cleanup, the YAML extension and its schemas, and the event history.
World ==
    [json |-> jsonSettings, clean |-> jsonClean, ext |-> yamlExtension,
     yaml |-> yamlSchemas, log |-> log]

LogEvent(W, kind, id) == [W EXCEPT !.log = Append(@, <<kind, id>>)]

\* Mutant: a key missing from the table resolves to the cfn schema
ResolveSchema_Default(schema, sch) ==
    IF schema \in sch.keys THEN SchemaLocation[schema] ELSE SchemaLocation["cfn"]

\* resolveSchema: a key of the resolved table gives its location, a missing
\* key gives undefined
ResolveSchema(schema, sch) ==
    IF schema \in sch.keys THEN SchemaLocation[schema] ELSE None

\* applyScheme(AWS_SCHEME, schema): the location under the toolkit's scheme
ApplyScheme(loc) ==
    CASE loc = SchemaLocation.cfn -> "aws:///storage/cloudformation.schema.json"
      [] loc = SchemaLocation.sam -> "aws:///storage/sam.schema.json"
      [] OTHER -> "aws:///storage/buildspec.schema.json"

NoYamlSchemas == [u \in Uris |-> None]

\* YamlSchemaHandler.handleUpdate, lines 350-361, on the extension's schemas
YamlApply(store, m, sch) ==
    IF m.schema # None
    THEN LET schema == ResolveSchema(m.schema, sch) IN
         IF schema = None THEN store
         ELSE [store EXCEPT ![m.uri] = ApplyScheme(schema)]
    ELSE [store EXCEPT ![m.uri] = None]

\* Paths of stale AWS resource documents: file.endsWith('.awsResource.json')
StalePaths == {"/ws/stale.awsResource.json"}

\* Mutant: entries left without a file are kept
FilterJsonSettings_KeepEmpty(settings, rejected) ==
    [k \in 1..Len(settings) |->
        [settings[k] EXCEPT !.fileMatch = SelectSeq(@, LAMBDA file : file \notin rejected)]]

\* filterJsonSettings(settings, predicate), the predicate given as the set of
\* file names it rejects: every entry keeps the files that pass, and entries
\* left without a file are dropped
FilterJsonSettings(settings, rejected) ==
    LET filtered == [k \in 1..Len(settings) |->
                        [settings[k] EXCEPT !.fileMatch =
                            SelectSeq(@, LAMBDA file : file \notin rejected)]]
    IN SelectSeq(filtered, LAMBDA e : Len(e.fileMatch) > 0)

\* cleanResourceMappings: the settings it writes
CleanResourceMappings(settings) == FilterJsonSettings(settings, StalePaths)

\* Mutant: the lookup by schema path never finds an entry
GetSettingBySchema_NotFound(settings, schm) == 0

\* getSettingBy({schemaPath}): index of the first entry with that url, or 0
GetSettingBySchema(settings, schm) ==
    IF \E k \in 1..Len(settings) : settings[k].url = schm
    THEN CHOOSE k \in 1..Len(settings) :
            /\ settings[k].url = schm
            /\ \A j \in 1..(k - 1) : settings[j].url # schm
    ELSE 0

\* JsonSchemaHandler.handleUpdate, lines 401-431, after `await this.clean()`:
\* either it returns without writing (unresolvable schema) or it calls
\* config.update with the settings in w and suspends on it
JsonAfterClean(W, m, sch) ==
    LET path == NormalizeVSCodeUri[m.uri] IN
    IF m.schema # None
    THEN LET schema == ResolveSchema(m.schema, sch) IN
         IF schema = None
         THEN [W |-> W, pc |-> "returned", w |-> <<>>]
         ELSE LET k == GetSettingBySchema(W.json, schema) IN
              IF k # 0
              THEN [W |-> W, pc |-> "update",
                    w |-> [W.json EXCEPT ![k].fileMatch = Append(@, path)]]
              ELSE [W |-> W, pc |-> "update",
                    w |-> Append(W.json, [fileMatch |-> <<path>>, url |-> schema])]
    ELSE [W |-> W, pc |-> "update",
          w |-> FilterJsonSettings(W.json, {path})]

\* Mutant: a call that finds the cleanup in progress does not wait for it
JsonHandleUpdate_NoWait(W, m, sch) ==
    CASE W.clean = "never" ->
            [W |-> [W EXCEPT !.clean = "pending"], pc |-> "cleaning", w |-> <<>>]
      [] OTHER -> JsonAfterClean(W, m, sch)

\* JsonSchemaHandler.handleUpdate up to its first suspension: `await this.clean()`
\* runs cleanResourceMappings on the first call only (once)
JsonHandleUpdate(W, m, sch) ==
    CASE W.clean = "never" ->
            [W |-> [W EXCEPT !.clean = "pending"], pc |-> "cleaning", w |-> <<>>]
      [] W.clean = "pending" -> [W |-> W, pc |-> "clean", w |-> <<>>]
      [] OTHER -> JsonAfterClean(W, m, sch)

\* Mutant: the extension is activated on every call
YamlHandleUpdate_AlwaysActivates(W, m, sch) == [W |-> W, pc |-> "activate", w |-> <<>>]

\* YamlSchemaHandler.handleUpdate up to its first suspension: it activates the
\* extension when it has none, and assigns or removes the schema otherwise
YamlHandleUpdate(W, m, sch) ==
    IF ~W.ext
    THEN [W |-> W, pc |-> "activate", w |-> <<>>]
    ELSE [W |-> [W EXCEPT !.yaml = YamlApply(@, m, sch)], pc |-> "returned", w |-> <<>>]

\* handler.handleUpdate(mapping, this.schemas) for the handler of the type
HandleUpdate(W, m, sch) ==
    IF m.type = "json" THEN JsonHandleUpdate(W, m, sch) ELSE YamlHandleUpdate(W, m, sch)

\* ------------------------------------------------------------- isMapped
\* uri.fsPath, the path getSettingBy({file: uri}) looks for; for the model's
\* documents it is the path normalizeVSCodeUri gives
FsPath == NormalizeVSCodeUri

\* JsonSchemaHandler.isMapped: getSettingBy({file}) finds an entry whose
\* fileMatch includes the path
JsonIsMapped(settings, uri) ==
    \E k \in 1..Len(settings) : FsPath[uri] \in Range(settings[k].fileMatch)

\* YamlSchemaHandler.isMapped: false without the extension, else whether the
\* extension holds a schema for the Uri
YamlIsMapped(ext, store, uri) == ext /\ store[uri] # None

\* h.isMapped(uri) of the handler registered for type h
HandlerIsMapped(h, W, uri) ==
    IF h = "json" THEN JsonIsMapped(W.json, uri) ELSE YamlIsMapped(W.ext, W.yaml, uri)

\* this.handlers.values(): the handlers in the Map's insertion order
HandlerOrder(hs) == SelectSeq(<<"json", "yaml">>, LAMBDA h : h \in hs)

\* Mutant: returns what the first handler answers
IsMappedFrom_FirstOnly(order, i, W, uri) ==
    i <= Len(order) /\ HandlerIsMapped(order[i], W, uri)

\* The loop of SchemaService.isMapped from handler i on
RECURSIVE IsMappedFrom(_, _, _, _)
IsMappedFrom(order, i, W, uri) ==
    IF i > Len(order) THEN FALSE
    ELSE IF HandlerIsMapped(order[i], W, uri) THEN TRUE
    ELSE IsMappedFrom(order, i + 1, W, uri)

\* SchemaService.isMapped(uri)
IsMapped(uri) == IsMappedFrom(HandlerOrder(handlers), 1, World, uri)

\* -------------------------------------------------------- processUpdates
\* Mutant: a mapping whose type has no handler is reported and skipped, and
\* the loop goes on with the rest of the batch
RECURSIVE DispatchFrom_SkipUnknown(_, _, _, _, _)
DispatchFrom_SkipUnknown(W, batch, i, hs, sch) ==
    IF i > Len(batch)
    THEN [W |-> W, st |-> "done", i |-> i, pc |-> "returned", w |-> <<>>]
    ELSE LET m == batch[i] IN
         IF m.type \notin hs
         THEN DispatchFrom_SkipUnknown(LogEvent(W, "nohandler", m.id), batch, i + 1, hs, sch)
         ELSE LET c == HandleUpdate(LogEvent(W, "begin", m.id), m, sch) IN
              IF c.pc = "returned"
              THEN DispatchFrom_SkipUnknown(LogEvent(c.W, "end", m.id), batch, i + 1, hs, sch)
              ELSE [W |-> c.W, st |-> "suspended", i |-> i, pc |-> c.pc, w |-> c.w]

\* The loop of processUpdates from item i of the batch, lines 135-148, up to
\* its next suspension: st is "done" (batch finished), "failed" (it threw) or
\* "suspended" (a handler call awaits I/O in phase pc)
RECURSIVE DispatchFrom(_, _, _, _, _)
DispatchFrom(W, batch, i, hs, sch) ==
    IF i > Len(batch)
    THEN [W |-> W, st |-> "done", i |-> i, pc |-> "returned", w |-> <<>>]
    ELSE LET m == batch[i] IN
         IF m.type \notin hs
         THEN [W |-> LogEvent(W, "nohandler", m.id), st |-> "failed", i |-> i,
               pc |-> "thrown", w |-> <<>>]
         ELSE LET c == HandleUpdate(LogEvent(W, "begin", m.id), m, sch) IN
              IF c.pc = "returned"
              THEN DispatchFrom(LogEvent(c.W, "end", m.id), batch, i + 1, hs, sch)
              ELSE [W |-> c.W, st |-> "suspended", i |-> i, pc |-> c.pc, w |-> c.w]

\* Mutant: the guard lets a single queued mapping wait for company
IsNoOp_SingleItem(q, sch) == Len(q) <= 1 \/ ~sch.isSet

\* Mutant: the guard does not look at the resolved schema table
IsNoOp_IgnoreSchemas(q, sch) == Len(q) = 0

\* line 130: the guard of processUpdates
IsNoOp(q, sch) == Len(q) = 0 \/ ~sch.isSet

\* Mutant: the batch is copied and the queue keeps its mappings
SpliceBatch_KeepQueue(q) == [batch |-> q, rest |-> q]

\* Mutant: takes only the first queued mapping (a shift instead of the splice)
SpliceBatch_FirstOnly(q) == [batch |-> <<q[1]>>, rest |-> Tail(q)]

\* Mutant: the batch is walked from its newest mapping to its oldest
SpliceBatch_Reversed(q) ==
    [batch |-> [k \in 1..Len(q) |-> q[Len(q) + 1 - k]], rest |-> <<>>]

\* line 134: this.updateQueue.splice(0, this.updateQueue.length)
SpliceBatch(q) == [batch |-> q, rest |-> <<>>]

\* Mutant: a call made before the table exists throws the queued mappings away
ProcessUpdates_DropOnNoTable(q, W, hs, sch) ==
    IF IsNoOp(q, sch)
    THEN [queue |-> <<>>, W |-> W, st |-> "noop", batch |-> <<>>, i |-> 0,
          pc |-> "returned", w |-> <<>>]
    ELSE LET sp == SpliceBatch(q)
             r == DispatchFrom(W, sp.batch, 1, hs, sch)
         IN [queue |-> sp.rest, W |-> r.W, st |-> r.st, batch |-> sp.batch,
             i |-> r.i, pc |-> r.pc, w |-> r.w]

\* processUpdates() from its call to its first suspension
ProcessUpdates(q, W, hs, sch) ==
    IF IsNoOp(q, sch)
    THEN [queue |-> q, W |-> W, st |-> "noop", batch |-> <<>>, i |-> 0,
          pc |-> "returned", w |-> <<>>]
    ELSE LET sp == SpliceBatch(q)
             r == DispatchFrom(W, sp.batch, 1, hs, sch)
         IN [queue |-> sp.rest, W |-> r.W, st |-> r.st, batch |-> sp.batch,
             i |-> r.i, pc |-> r.pc, w |-> r.w]

\* Mutant: the timer is refreshed as soon as the callback has called
\* processUpdates, without awaiting it
TimerAfter_RefreshAtOnce(st) ==
    CASE st = "failed" -> "dead"
      [] OTHER -> "armed"

\* Mutant: the timer is refreshed only after a call that did nothing
TimerAfter_NoRefresh(st) ==
    CASE st = "noop" -> "armed"
      [] st \in {"done", "failed"} -> "dead"
      [] OTHER -> "running"

\* The drain timer after the timer callback's processUpdates call reached st:
\* line 157 refreshes the timer only after processUpdates has completed
TimerAfter(st) ==
    CASE st \in {"noop", "done"} -> "armed"
      [] st = "failed" -> "dead"
      [] OTHER -> "running"

SetWorld(W) ==
    /\ jsonSettings' = W.json
    /\ jsonClean' = W.clean
    /\ yamlExtension' = W.ext
    /\ yamlSchemas' = W.yaml
    /\ log' = W.log

Drain(src, r) == [src |-> src, batch |-> r.batch, i |-> r.i, pc |-> r.pc, w |-> r.w]

\* --------------------------------------------------------------- actions
\* lastOp: the last operation that changed the service (name), the mapping it was called with or resumed (m),
\* registerMapping's flush flag, whether it pushed m (pushed), the ownership
\* entry of m.uri before the call (prev), how far the processUpdates call it
\* made or resumed got (st: "none" when it made none) and that call's batch
Op(name, m, flush, pushed, prev, st, batch) ==
    [name |-> name, m |-> m, flush |-> flush, pushed |-> pushed, prev |-> prev,
     st |-> st, batch |-> batch]

\* The service after construction
InitService ==
    /\ updateQueue = <<>>
    /\ owned = [u \in Uris |-> NoMapping]
    /\ schemas = [isSet |-> FALSE, keys |-> {}]
    /\ handlers \in HandlerMaps
    /\ timer = "unset"
    /\ drains = {}
    /\ jsonSettings = <<>>
    /\ jsonClean = "never"
    /\ yamlExtension = FALSE
    /\ yamlSchemas = NoYamlSchemas
    /\ log = <<>>
    /\ regs = 0
    /\ accepted = <<>>
    /\ lastOp = Op("new", NoMapping, FALSE, FALSE, NoMapping, "none", <<>>)
    /\ schemaMap = NoSchemaMap
    /\ lastRegistry = NoRegistryOp

\* A first run of the toolkit: nothing cached, getDefaultSchemas not begun
Init ==
    /\ InitService
    /\ globalState = [k \in CacheKeys |-> None]
    /\ files = [k \in Kinds |-> None]
    /\ download = [pc |-> "manifest", version |-> None, table |-> {}]
    /\ lastCall = NoCall

\* start(), lines 93-96: getDefaultSchemas is started and the timer is armed
Start ==
    /\ timer = "unset"
    /\ timer' = "armed"
    /\ lastOp' = Op("start", NoMapping, FALSE, FALSE, NoMapping, "none", <<>>)
    /\ UNCHANGED <<updateQueue, owned, schemas, handlers, drains, jsonSettings,
                   jsonClean, yamlExtension, yamlSchemas, log, regs, accepted>>
    /\ UNCHANGED downloadVars
    /\ UNCHANGED registryVars

\* line 94: getDefaultSchemas(...).then(schemas => (this.schemas = schemas))
ResolveSchemas(table) ==
    /\ timer # "unset"
    /\ ~schemas.isSet
    /\ schemas' = [isSet |-> TRUE, keys |-> table]
    /\ lastOp' = Op("resolve", NoMapping, FALSE, FALSE, NoMapping, "none", <<>>)
    /\ UNCHANGED <<updateQueue, owned, handlers, timer, drains, jsonSettings,
                   jsonClean, yamlExtension, yamlSchemas, log, regs, accepted>>
    /\ UNCHANGED downloadVars
    /\ UNCHANGED registryVars

\* registerMapping(mapping, flush), lines 106-127
RegisterMapping(input, flush) ==
    /\ regs < MaxRegs
    /\ LET m == [input EXCEPT !.id = regs + 1]
           own == ClaimStep(owned, m)
           prev == owned[m.uri]
       IN /\ regs' = regs + 1
          /\ owned' = own
          /\ IF IsAccepted(own, m)
             THEN LET q == Append(updateQueue, m) IN
                  /\ accepted' = Append(accepted, m.id)
                  /\ IF flush
                     THEN LET r == ProcessUpdates(q, World, handlers, schemas) IN
                          /\ updateQueue' = r.queue
                          /\ SetWorld(r.W)
                          /\ drains' = IF r.st = "suspended"
                                       THEN drains \cup {Drain("flush", r)}
                                       ELSE drains
                          /\ lastOp' = Op("registerMapping", m, flush, TRUE, prev,
                                          r.st, r.batch)
                     ELSE /\ updateQueue' = q
                          /\ lastOp' = Op("registerMapping", m, flush, TRUE, prev,
                                          "none", <<>>)
                          /\ UNCHANGED <<drains, jsonSettings, jsonClean,
                                         yamlExtension, yamlSchemas, log>>
             ELSE /\ lastOp' = Op("registerMapping", m, flush, FALSE, prev, "none", <<>>)
                  /\ UNCHANGED <<updateQueue, drains, jsonSettings, jsonClean,
                                 yamlExtension, yamlSchemas, log, accepted>>
    /\ UNCHANGED <<schemas, handlers, timer>>
    /\ UNCHANGED downloadVars
    /\ UNCHANGED registryVars

\* The timer callback, lines 155-158: await processUpdates(), then refresh
TimerFire ==
    /\ timer = "armed"
    /\ LET r == ProcessUpdates(updateQueue, World, handlers, schemas) IN
       /\ updateQueue' = r.queue
       /\ SetWorld(r.W)
       /\ drains' = IF r.st = "suspended" THEN drains \cup {Drain("timer", r)}
                    ELSE drains
       /\ timer' = TimerAfter(r.st)
       /\ lastOp' = IF r.st = "noop" THEN lastOp
                    ELSE Op("timer", NoMapping, FALSE, FALSE, NoMapping, r.st, r.batch)
    /\ UNCHANGED <<owned, schemas, handlers, regs, accepted>>
    /\ UNCHANGED downloadVars
    /\ UNCHANGED registryVars

\* The handler call of drain d after the I/O it awaited has completed (ok) or
\* failed (~ok): the rest of handleUpdate up to its return, throw or next
\* suspension.  cleaning: the config.update of cleanResourceMappings, whose
\* failure is caught; update: the config.update of handleUpdate; activate:
\* activateYamlExtension (undefined when it fails, which the history records
\* as "noext") and addCustomTags
AfterIO(W, d, ok, sch) ==
    LET m == d.batch[d.i] IN
    CASE d.pc = "cleaning" ->
            JsonAfterClean([W EXCEPT !.clean = "done",
                                     !.json = IF ok THEN CleanResourceMappings(@) ELSE @],
                           m, sch)
      [] d.pc = "clean" -> JsonAfterClean(W, m, sch)
      [] d.pc = "update" ->
            IF ok THEN [W |-> [W EXCEPT !.json = d.w], pc |-> "returned", w |-> <<>>]
            ELSE [W |-> W, pc |-> "thrown", w |-> <<>>]
      [] OTHER ->
            IF ok
            THEN [W |-> [W EXCEPT !.ext = TRUE,
                                  !.yaml = YamlApply(NoYamlSchemas, m, sch)],
                  pc |-> "returned", w |-> <<>>]
            ELSE [W |-> LogEvent(W, "noext", m.id), pc |-> "returned", w |-> <<>>]

\* processUpdates of drain d resumed after its handler call's I/O
ResumeDrain(W, d, ok, hs, sch) ==
    LET m == d.batch[d.i]
        c == AfterIO(W, d, ok, sch)
    IN CASE c.pc = "returned" ->
               DispatchFrom(LogEvent(c.W, "end", m.id), d.batch, d.i + 1, hs, sch)
         [] c.pc = "thrown" ->
               [W |-> LogEvent(c.W, "throw", m.id), st |-> "failed", i |-> d.i,
                pc |-> "thrown", w |-> <<>>]
         [] OTHER -> [W |-> c.W, st |-> "suspended", i |-> d.i, pc |-> c.pc, w |-> c.w]

\* The I/O a suspended handler call awaits completes
Resume(d, ok) ==
    /\ d \in drains
    /\ d.pc = "clean" => jsonClean = "done"
    /\ LET r == ResumeDrain(World, d, ok, handlers, schemas) IN
       /\ SetWorld(r.W)
       /\ drains' = IF r.st = "suspended"
                    THEN (drains \ {d}) \cup {[d EXCEPT !.i = r.i, !.pc = r.pc, !.w = r.w]}
                    ELSE drains \ {d}
       /\ timer' = IF d.src = "timer" THEN TimerAfter(r.st) ELSE timer
       /\ lastOp' = Op("resume", d.batch[d.i], FALSE, FALSE, NoMapping, r.st, d.batch)
    /\ UNCHANGED <<updateQueue, owned, schemas, handlers, regs, accepted>>
    /\ UNCHANGED downloadVars
    /\ UNCHANGED registryVars

Next ==
    \/ Start
    \/ \E table \in ResolvableTables : ResolveSchemas(table)
    \/ \E input \in Inputs, flush \in BOOLEAN : RegisterMapping(input, flush)
    \/ TimerFire
    \/ \E d \in drains, ok \in BOOLEAN : Resume(d, ok)

Spec == Init /\ [][Next]_vars

\* A service with the default handlers whose callers claim ownership; the
\* table resolves with the cfn schema and without the sam schema
InitOwn == Init /\ handlers = {"json", "yaml"}

NextOwn ==
    \/ Start
    \/ ResolveSchemas({"cfn", "buildspec"})
    \/ \E input \in OwnInputs, flush \in BOOLEAN : RegisterMapping(input, flush)
    \/ TimerFire
    \/ \E d \in drains, ok \in BOOLEAN : Resume(d, ok)

SpecOwn == InitOwn /\ [][NextOwn]_vars

\* A service with the default handlers, so that every mapping type has a
\* handler, whose handler calls complete without error: the config.update of
\* JsonSchemaHandler.handleUpdate does not fail.  Resolution completes, the
\* timer fires and awaited I/O completes (weak fairness)
LiveInputs == {Mapping(u, None, "cfn") : u \in {"doc1", "doc2"}}

LiveTable == {"cfn", "sam", "buildspec"}

ResumeLive == \E d \in drains, ok \in BOOLEAN : (d.pc = "update" => ok) /\ Resume(d, ok)

NextLive ==
    \/ Start
    \/ ResolveSchemas(LiveTable)
    \/ \E input \in LiveInputs, flush \in BOOLEAN : RegisterMapping(input, flush)
    \/ TimerFire
    \/ ResumeLive

SpecLive ==
    /\ InitOwn
    /\ [][NextLive]_vars
    /\ WF_vars(ResolveSchemas(LiveTable))
    /\ WF_vars(TimerFire)
    /\ WF_vars(ResumeLive)

\* A service with the default handlers in a workspace whose 'json.schemas'
\* setting may hold entries from before: none, or the entry of a stale AWS
\* resource document next to an entry the user wrote.  Two JSON documents and
\* the YAML document are registered, without flush, so that the timer alone
\* drains the queue and handler calls follow one another; the table resolves
\* the cfn and buildspec schemas and not the sam schema
StaleEntry ==
    [fileMatch |-> <<"/ws/stale.awsResource.json">>, url |-> "file:///storage/resource.schema.json"]

UserEntry == [fileMatch |-> <<"/ws/package.json">>, url |-> "https://example.org/package.schema.json"]

InitialJsonSettings == {<<>>, <<StaleEntry, UserEntry>>}

JsonInputs ==
    {Mapping(u, None, s) : u \in {"doc1", "doc3"}, s \in {"cfn", "buildspec", "sam", None}}
        \cup {Mapping("doc2", None, "sam")}

JsonTable == {"cfn", "buildspec"}

InitJson ==
    /\ updateQueue = <<>>
    /\ owned = [u \in Uris |-> NoMapping]
    /\ schemas = [isSet |-> FALSE, keys |-> {}]
    /\ handlers = {"json", "yaml"}
    /\ timer = "unset"
    /\ drains = {}
    /\ jsonSettings \in InitialJsonSettings
    /\ jsonClean = "never"
    /\ yamlExtension = FALSE
    /\ yamlSchemas = NoYamlSchemas
    /\ log = <<>>
    /\ regs = 0
    /\ accepted = <<>>
    /\ lastOp = Op("new", NoMapping, FALSE, FALSE, NoMapping, "none", <<>>)
    /\ globalState = [k \in CacheKeys |-> None]
    /\ files = [k \in Kinds |-> None]
    /\ download = [pc |-> "manifest", version |-> None, table |-> {}]
    /\ lastCall = NoCall
    /\ schemaMap = NoSchemaMap
    /\ lastRegistry = NoRegistryOp

NextJson ==
    \/ Start
    \/ ResolveSchemas(JsonTable)
    \/ \E input \in JsonInputs : RegisterMapping(input, FALSE)
    \/ TimerFire
    \/ \E d \in drains, ok \in BOOLEAN : Resume(d, ok)

SpecJson == InitJson /\ [][NextJson]_vars

\* ------------------------------------------ updateSchemaFromRemote
\* Standalone updateSchemaFromRemote calls in one behaviour
MaxCalls == 2

serviceVars ==
    <<updateQueue, owned, schemas, handlers, timer, drains, jsonSettings,
      jsonClean, yamlExtension, yamlSchemas, log, regs, accepted, lastOp>>

\* Mutant: a call without a version counts as outdated when a version is cached
Outdated_WithoutVersion(version, cachedVersion) == version # cachedVersion

\* line 262: params.version && params.version !== cachedVersion
Outdated(version, cachedVersion) == version # None /\ version # cachedVersion

\* Mutant: an up-to-date version counts as a hit without looking at the file
IsCacheHit_IgnoreContent(version, cachedVersion, cachedContent) ==
    ~Outdated(version, cachedVersion)

\* line 269: !outdated && cachedContent
IsCacheHit(version, cachedVersion, cachedContent) ==
    ~Outdated(version, cachedVersion) /\ cachedContent # None

\* Mutant: a failure propagates even when cached content exists
FailureResult_AlwaysThrows(cachedContent) == "thrown"

\* lines 288-297, the catch: the cached file is used when there is one, else
\* the error is thrown again
FailureResult(cachedContent) == IF cachedContent # None THEN "returned" ELSE "thrown"

\* Mutant: a rejected globalState.update is treated like a failed download
ResultOf_RejectionThrows(out, cachedContent) ==
    IF out = "stored" THEN "returned" ELSE FailureResult(cachedContent)

\* How a call that fetches ends: the rejection of globalState.update is
\* swallowed by its own handler (lines 285-287), every other failure goes to
\* the catch
ResultOf(out, cachedContent) ==
    IF out \in {"stored", "cacheRejected"} THEN "returned"
    ELSE FailureResult(cachedContent)

\* Mutant: the version key is written before the download is attempted
KeyAfter_WrittenFirst(out, version, cachedVersion) == version

\* The version key after a call that fetches: globalState.update(cacheKey,
\* version) is reached only after writeFile, and stores unless it rejects
KeyAfter(out, version, cachedVersion) ==
    IF out = "stored" THEN version ELSE cachedVersion

\* The destination after a call that fetches: written once fetch, parse and
\* createDirectory have succeeded and writeFile succeeds
FileAfter(out, version, cachedContent) ==
    IF out \in {"stored", "cacheRejected"} THEN SchemaFile(version) ELSE cachedContent

\* updateSchemaFromRemote(params), lines 253-299, for the kind's destination
\* and cache key: the version cache and the files after it, how it ended and
\* the number of http fetches it made
UpdateSchemaFromRemote(gs, fl, kind, version, out) ==
    LET cachedVersion == gs[CacheKey[kind]]
        cachedContent == fl[kind]
    IN IF IsCacheHit(version, cachedVersion, cachedContent)
       THEN [gs |-> gs, fl |-> fl, result |-> "returned", fetches |-> 0, out |-> "hit"]
       ELSE [gs |-> [gs EXCEPT ![CacheKey[kind]] = KeyAfter(out, version, cachedVersion)],
             fl |-> [fl EXCEPT ![kind] = FileAfter(out, version, cachedContent)],
             result |-> ResultOf(out, cachedContent), fetches |-> 1, out |-> out]

\* The effect of call r on the version cache, the files and the history:
\* lastCall numbers the call (n) and records who made it, its arguments, how
\* far it got (out: "hit" for a cache hit), its http fetches, how it ended,
\* the version key and the file it found, and kind, version and out of the
\* call before it
CallEffect(r, by, kind, version) ==
    /\ globalState' = r.gs
    /\ files' = r.fl
    /\ lastCall' = [n |-> lastCall.n + 1, by |-> by, kind |-> kind,
                    version |-> version, out |-> r.out, fetches |-> r.fetches,
                    result |-> r.result,
                    cachedVersion |-> globalState[CacheKey[kind]],
                    cachedContent |-> files[kind],
                    before |-> <<lastCall.kind, lastCall.version, lastCall.out>>]

\* updateSchemaFromRemote called on its own (it is exported)
CallUpdateSchemaFromRemote(kind, version, out) ==
    /\ lastCall.n < MaxCalls
    /\ CallEffect(UpdateSchemaFromRemote(globalState, files, kind, version, out),
                  "direct", kind, version)
    /\ UNCHANGED download
    /\ UNCHANGED serviceVars
    /\ UNCHANGED registryVars

\* ---------------------------------------------------- getDefaultSchemas
\* line 176: the manifest's tag_name, undefined when it cannot be fetched
GetManifest(version) ==
    /\ timer # "unset"
    /\ download.pc = "manifest"
    /\ download' = [download EXCEPT !.pc = "cfn", !.version = version]
    /\ UNCHANGED <<globalState, files, lastCall>>
    /\ UNCHANGED serviceVars
    /\ UNCHANGED registryVars

\* Mutant: the cfn and sam schemas are left out whenever the manifest gave no
\* version
TableAfter_NeedsVersion(table, kind, version, result) ==
    IF result = "returned" /\ version # None THEN table \cup {kind} ELSE table

\* Mutant: the entry is made whether or not the call returned
TableAfter_Always(table, kind, version, result) == table \cup {kind}

\* schemas[kind] = location is reached when the call returns; a throw is
\* caught and logged
TableAfter(table, kind, version, result) ==
    IF result = "returned" THEN table \cup {kind} ELSE table

\* lines 178-205: the update of the cfn schema, then of the sam schema, with
\* the manifest's version
DownloadGoformation(kind, out) ==
    /\ kind \in {"cfn", "sam"}
    /\ download.pc = kind
    /\ LET r == UpdateSchemaFromRemote(globalState, files, kind, download.version, out) IN
       /\ CallEffect(r, "getDefaultSchemas", kind, download.version)
       /\ download' = [download EXCEPT
                          !.pc = IF kind = "cfn" THEN "sam" ELSE "buildspec",
                          !.table = TableAfter(@, kind, download.version, r.result)]
    /\ UNCHANGED serviceVars
    /\ UNCHANGED registryVars

\* What getFromUrl of a buildspec source gives the caller: it throws, or gives
\* nothing (no version), or gives contents with the hash
GetFromUrlResults == BuildspecVersions \cup {"threw"}

\* Mutant: there is no outer try, a failure of the fallback source escapes
AfterBuildspec_NoOuterCatch(pc, result) ==
    IF result = "returned" THEN "done"
    ELSE IF pc = "buildspec" THEN "fallback" ELSE "rejected"

\* Mutant: a failure of the primary source is final
AfterBuildspec_NoFallback(pc, result) == "done"

\* Where getDefaultSchemas goes after the update from a buildspec source:
\* a failure of the primary source leads to the fallback source, a failure of
\* the fallback is caught by the outer try
AfterBuildspec(pc, result) ==
    IF result = "returned" THEN "done"
    ELSE IF pc = "buildspec" THEN "fallback" ELSE "done"

\* lines 207-237: the update of the buildspec schema from the CloudFront
\* source (pc "buildspec") or from the S3 fallback (pc "fallback")
DownloadBuildspec(got, out) ==
    /\ download.pc \in {"buildspec", "fallback"}
    /\ IF got = "threw"
       THEN /\ download' = [download EXCEPT !.pc = AfterBuildspec(@, "thrown")]
            /\ UNCHANGED <<globalState, files, lastCall>>
       ELSE LET r == UpdateSchemaFromRemote(globalState, files, "buildspec", got, out) IN
            /\ CallEffect(r, "getDefaultSchemas", "buildspec", got)
            /\ download' = [download EXCEPT
                               !.pc = AfterBuildspec(@, r.result),
                               !.table = TableAfter(@, "buildspec", got, r.result)]
    /\ UNCHANGED serviceVars
    /\ UNCHANGED registryVars

\* line 94: .then(schemas => (this.schemas = schemas)) with the returned table
ResolveDownloaded ==
    /\ download.pc = "done"
    /\ download' = [download EXCEPT !.pc = "resolved"]
    /\ schemas' = [isSet |-> TRUE, keys |-> download.table]
    /\ UNCHANGED <<updateQueue, owned, handlers, timer, drains, jsonSettings,
                   jsonClean, yamlExtension, yamlSchemas, log, regs, accepted,
                   lastOp, globalState, files, lastCall>>
    /\ UNCHANGED registryVars

\* What an earlier run of the toolkit can have left for a kind: the version
\* key and the file, each present or not
CachedVersions(kind) == IF kind = "buildspec" THEN {"h1", None} ELSE {"v1", None}

InitFetch ==
    /\ InitService
    /\ handlers = {"json", "yaml"}
    /\ globalState \in {g \in [CacheKeys -> {"v1", "h1", None}] :
                           \A k \in Kinds : g[CacheKey[k]] \in CachedVersions(k)}
    /\ files \in {f \in [Kinds -> {SchemaFile("v1"), SchemaFile("h1"), None}] :
                     \A k \in Kinds :
                        f[k] \in {IF v = None THEN None ELSE SchemaFile(v) :
                                     v \in CachedVersions(k)}}
    /\ download = [pc |-> "manifest", version |-> None, table |-> {}]
    /\ lastCall = NoCall

\* updateSchemaFromRemote called repeatedly on what earlier runs left
NextFetch ==
    \E kind \in Kinds, version \in ManifestVersions, out \in Outcomes :
        CallUpdateSchemaFromRemote(kind, version, out)

SpecFetch == InitFetch /\ [][NextFetch]_vars

\* start() running getDefaultSchemas on what earlier runs left
NextDefaults ==
    \/ Start
    \/ \E version \in ManifestVersions : GetManifest(version)
    \/ \E kind \in {"cfn", "sam"}, out \in Outcomes : DownloadGoformation(kind, out)
    \/ \E got \in GetFromUrlResults, out \in Outcomes : DownloadBuildspec(got, out)
    \/ ResolveDownloaded

SpecDefaults == InitFetch /\ [][NextDefaults]_vars

\* ------------------------------------------- yaml.ts: the schema registry
\* `!registry`: undefined and the empty string are both falsy
Falsy(registry) == registry \in {None, ""}

\* Map.has / Map.get / Map.set / Map.delete on an inner map; set on a present key
\* keeps the key's position, set on a new key appends it
MapHas(entries, key) == \E i \in 1..Len(entries) : entries[i].registry = key

MapGet(entries, key) ==
    IF MapHas(entries, key)
    THEN (CHOOSE e \in Range(entries) : e.registry = key).schema
    ELSE None

MapSet(entries, key, val) ==
    IF MapHas(entries, key)
    THEN [i \in 1..Len(entries) |->
            IF entries[i].registry = key
            THEN [registry |-> key, schema |-> val]
            ELSE entries[i]]
    ELSE Append(entries, [registry |-> key, schema |-> val])

MapDelete(entries, key) == SelectSeq(entries, LAMBDA e : e.registry # key)

\* A mutant of DeRegisterSchema: the path's whole inner map is dropped
DeRegisterSchema_DropPath(path, registry, map) ==
    IF Falsy(registry) THEN map
    ELSE IF ~map[path].has THEN map
    ELSE [map EXCEPT ![path] = [has |-> FALSE, entries |-> <<>>]]

\* registerSchema, yaml.ts lines 40-54
RegisterSchema(path, registry, schema, map) ==
    IF Falsy(registry) THEN map
    ELSE [map EXCEPT ![path] =
            [has |-> TRUE,
             entries |-> MapSet(map[path].entries, registry, ApplyScheme(schema))]]

\* deRegisterSchema, yaml.ts lines 56-66
DeRegisterSchema(path, registry, map) ==
    IF Falsy(registry) THEN map
    ELSE IF ~map[path].has THEN map
    ELSE [map EXCEPT ![path].entries = MapDelete(@, registry)]

\* getSchemas, yaml.ts lines 68-78: the first value of the path's inner map
GetSchemas(path, map) ==
    IF ~map[path].has THEN None
    ELSE IF Len(map[path].entries) > 0 THEN map[path].entries[1].schema
    ELSE None

\* The YamlExtension returned by activateYamlExtension, lines 117-123
AssignSchema(path, registry, schema) ==
    /\ schemaMap' = RegisterSchema(path, registry, schema, schemaMap)
    /\ lastRegistry' =
          [name |-> "assignSchema", path |-> path, registry |-> registry,
           schema |-> schema,
           assigned |-> IF registry = None THEN lastRegistry.assigned
                        ELSE [lastRegistry.assigned EXCEPT ![path] = @ \cup {registry}]]
    /\ UNCHANGED serviceVars
    /\ UNCHANGED downloadVars

RemoveSchema(path, registry) ==
    /\ schemaMap' = DeRegisterSchema(path, registry, schemaMap)
    /\ lastRegistry' =
          [name |-> "removeSchema", path |-> path, registry |-> registry,
           schema |-> None,
           assigned |-> [lastRegistry.assigned EXCEPT ![path] = @ \ {registry}]]
    /\ UNCHANGED serviceVars
    /\ UNCHANGED downloadVars

\* The callers of the extension's registry: any path, any registry, any schema
NextYaml ==
    \/ \E path \in YamlPaths, registry \in RegistryInputs, schema \in RegistrySchemas :
          AssignSchema(path, registry, schema)
    \/ \E path \in YamlPaths, registry \in RegistryInputs :
          RemoveSchema(path, registry)

SpecYaml == Init /\ [][NextYaml]_vars

\* ================================================================ claims
\* A step of registerMapping (the only operation that counts calls in regs);
\* lastOp' then holds the call: its mapping, its flush flag, whether it pushed
RegisterStep == regs' = regs + 1

\* ---------------------------------------------------------------- C1
\* C1 as stated: when a Uri is owned by A, registerMapping of a mapping for it
\* from any other owner B, whatever its schema, leaves the ownership entry
\* unchanged and does not enqueue the mapping.
C1_OtherOwnerAlwaysIgnored ==
    [][RegisterStep =>
        LET m == lastOp'.m IN
        (OwnedHas(owned, m.uri) /\ owned[m.uri].owner # None
            /\ m.owner # owned[m.uri].owner)
        => (owned'[m.uri] = owned[m.uri] /\ ~lastOp'.pushed)]_vars

\* C1 amended: when a Uri is owned by A, registerMapping of a mapping from
\* another owner B is ignored (ownership entry unchanged, nothing enqueued,
\* nothing dispatched) when B is absent or the mapping's schema equals the
\* recorded schema; a mapping from a present owner B whose schema differs from
\* the recorded one takes the ownership entry over and is enqueued.
C1_OtherOwnerIgnoredUnlessSchemaChanged ==
    [][RegisterStep =>
        LET m == lastOp'.m IN
        (OwnedHas(owned, m.uri) /\ owned[m.uri].owner # None
            /\ m.owner # owned[m.uri].owner)
        => IF m.owner = None \/ m.schema = owned[m.uri].schema
           THEN /\ owned' = owned
                /\ ~lastOp'.pushed
                /\ updateQueue' = updateQueue
                /\ drains' = drains
                /\ log' = log
           ELSE /\ owned'[m.uri] = m
                /\ lastOp'.pushed]_vars

\* C1 witness: owner B's mapping with the recorded schema was just ignored
\* for a Uri that owner A holds.
C1_Witness ==
    /\ lastOp.name = "registerMapping"
    /\ ~lastOp.pushed
    /\ lastOp.m.owner = "featureB"
    /\ lastOp.prev.owner = "featureA"
    /\ lastOp.m.schema = lastOp.prev.schema
    /\ owned[lastOp.m.uri] = lastOp.prev

\* ---------------------------------------------------------------- C2
\* C2: when a Uri is owned by A with schema S1, registerMapping of a mapping
\* for it from A with a schema S2 # S1 (an absent schema included) replaces the
\* ownership entry, which then records S2 and still owner A, and appends the
\* mapping to the update queue (a flush then hands the queue to processUpdates).
C2_SameOwnerReclaim ==
    [][RegisterStep =>
        LET m == lastOp'.m IN
        (OwnedHas(owned, m.uri) /\ m.owner # None /\ m.owner = owned[m.uri].owner
            /\ m.schema # owned[m.uri].schema)
        => /\ owned'[m.uri] = m
           /\ owned'[m.uri].schema = m.schema
           /\ owned'[m.uri].owner = owned[m.uri].owner
           /\ lastOp'.pushed
           /\ accepted' = Append(accepted, m.id)
           /\ (~lastOp'.flush \/ ~schemas.isSet) => updateQueue' = Append(updateQueue, m)]_vars

\* C2 witness: owner A has just replaced its recorded schema by an absent one.
C2_Witness ==
    /\ lastOp.name = "registerMapping"
    /\ lastOp.pushed
    /\ lastOp.prev.owner = "featureA"
    /\ lastOp.m.owner = "featureA"
    /\ lastOp.prev.schema = "cfn"
    /\ lastOp.m.schema = None
    /\ owned[lastOp.m.uri] = lastOp.m

\* ---------------------------------------------------------------- C3
\* C3: registerMapping leaves the whole ownership table as it was for a mapping
\* without an owner, and for a mapping without a schema whose Uri has no
\* ownership entry, whatever the flush flag and the rest of the state.
C3_OwnershipUnmodified ==
    [][RegisterStep =>
        LET m == lastOp'.m IN
        (m.owner = None \/ (m.schema = None /\ ~OwnedHas(owned, m.uri)))
        => owned' = owned]_vars

\* C3 witness: an owner-bearing removal with flush for a Uri nobody had claimed
\* has left the Uri unclaimed.
C3_Witness ==
    /\ lastOp.name = "registerMapping"
    /\ lastOp.flush
    /\ lastOp.m.owner = "featureA"
    /\ lastOp.m.schema = None
    /\ lastOp.prev = NoMapping
    /\ ~OwnedHas(owned, lastOp.m.uri)
    /\ schemas.isSet

\* ---------------------------------------------------------------- C4
\* C4: registerMapping appends the mapping to the update queue exactly when,
\* after the claim step, its owner equals the owner recorded for its Uri, an
\* absent owner on both sides counting as equal: an ownerless mapping for an
\* unclaimed Uri is appended, an ownerless mapping for a claimed Uri and an
\* owner-bearing removal for an unclaimed Uri are not; a mapping that is not
\* appended leaves the queue (and the drains and handlers) unchanged.
C4_EnqueueIffOwnerMatches ==
    [][RegisterStep =>
        LET m == lastOp'.m
            unclaimed == ~OwnedHas(owned, m.uri)
        IN /\ lastOp'.pushed <=> (m.owner = owned'[m.uri].owner)
           /\ (m.owner = None /\ unclaimed) => lastOp'.pushed
           /\ (m.owner = None /\ ~unclaimed) => ~lastOp'.pushed
           /\ (m.owner # None /\ m.schema = None /\ unclaimed) => ~lastOp'.pushed
           /\ (lastOp'.pushed /\ lastOp'.st \in {"none", "noop"})
                => updateQueue' = Append(updateQueue, m)
           /\ lastOp'.pushed => lastOp'.batch \in {<<>>, Append(updateQueue, m)}
           /\ ~lastOp'.pushed
                => /\ updateQueue' = updateQueue
                   /\ accepted' = accepted
                   /\ drains' = drains
                   /\ log' = log]_vars

\* C4 witness: an ownerless mapping for a claimed Uri was just refused while
\* other mappings wait in the queue.
C4_Witness ==
    /\ lastOp.name = "registerMapping"
    /\ ~lastOp.pushed
    /\ lastOp.m.owner = None
    /\ lastOp.prev.owner = "featureA"
    /\ Len(updateQueue) > 0

\* ------------------------------------------------- processUpdates steps
\* The queue a step's processUpdates call found: registerMapping pushes its
\* mapping before it calls processUpdates
QueueAtCall ==
    IF lastOp'.pushed THEN Append(updateQueue, lastOp'.m) ELSE updateQueue

\* A step in which the timer callback or a flushing registerMapping called
\* processUpdates (a step changes the state: a timer callback that changes
\* nothing is no step)
CallStep ==
    \/ lastOp'.name = "timer" /\ timer = "armed" /\ regs' = regs
    \/ RegisterStep /\ lastOp'.pushed /\ lastOp'.flush

\* A step in which a suspended processUpdates call went on
ResumeStep == lastOp'.name = "resume" /\ lastOp'.batch \in {d.batch : d \in drains}

AcceptedIds == Range(accepted)

\* The events of the log about the mappings of batch b, in log order
LogOf(b) ==
    SelectSeq(log, LAMBDA e : e[1] # "noext" /\ e[2] \in {b[k].id : k \in 1..Len(b)})

HasEventIn(lg, id) == \E k \in 1..Len(lg) : lg[k][2] = id
HasEvent(id) == HasEventIn(log, id)

\* ---------------------------------------------------------------- C5
\* C5: a processUpdates call that finds the queue empty or the resolved schema
\* table unset does nothing: it invokes no handler and leaves the update queue,
\* the ownership table, the drains in flight and the handlers' stores as they
\* were, however often it is called.
C5_NoOpProcessUpdates ==
    [][(CallStep /\ (Len(QueueAtCall) = 0 \/ ~schemas.isSet))
        => /\ lastOp'.st = "noop"
           /\ updateQueue' = QueueAtCall
           /\ lastOp'.name = "timer" => owned' = owned
           /\ UNCHANGED <<drains, timer, jsonSettings, jsonClean, yamlExtension,
                          yamlSchemas, log>>]_vars

\* C5 witness: a registerMapping with flush has just called processUpdates
\* on a started service whose table is not resolved yet; its mapping is the
\* only one queued.
C5_Witness ==
    /\ lastOp.name = "registerMapping"
    /\ lastOp.flush
    /\ lastOp.st = "noop"
    /\ timer = "armed"
    /\ ~schemas.isSet
    /\ updateQueue = <<lastOp.m>>

\* ---------------------------------------------------------------- C6
\* C6 as stated: a processUpdates call made while the resolved schema table
\* does not exist discards the queued mappings, so the queue is empty
\* afterwards.
C6_DiscardedWithoutTable ==
    [][(CallStep /\ ~schemas.isSet) => updateQueue' = <<>>]_vars

\* C6 amended: a processUpdates call made while the resolved schema table does
\* not exist keeps the queued mappings: until the table is set, and in the
\* state in which it is set, the queue holds every accepted mapping in
\* registration order and no handler has been called; the first processUpdates
\* call that proceeds afterwards takes all of them into its batch.
C6_RetainedWithoutTable ==
    [][/\ (~schemas'.isSet \/ lastOp'.name = "resolve")
            => /\ Ids(updateQueue') = accepted'
               /\ log' = <<>>
               /\ drains' = {}
       /\ (CallStep /\ lastOp'.st # "noop")
            => \A k \in 1..Len(updateQueue) :
                  updateQueue[k].id \in Range(Ids(lastOp'.batch))]_vars

\* C6 witness: a registerMapping with flush has just called processUpdates
\* before the table existed, and its mapping and an earlier one are queued.
C6_Witness ==
    /\ lastOp.name = "registerMapping"
    /\ lastOp.flush
    /\ lastOp.st = "noop"
    /\ ~schemas.isSet
    /\ Len(updateQueue) >= 2
    /\ updateQueue[Len(updateQueue)] = lastOp.m

\* ---------------------------------------------------------------- C7
\* handleUpdate of the handler for its type has been called with mapping id
Dispatched(id) == \E k \in 1..Len(log) : log[k] = <<"begin", id>>

\* C7: once start() has run, every mapping accepted into the update queue,
\* whether registered before or after the resolved schema table was set, is
\* eventually passed to handleUpdate of the handler for its type, given that
\* resolution completes, the timer fires fairly, every type has a handler and
\* handler calls complete without error.
C7_EventuallyDispatched ==
    \A id \in 1..MaxRegs :
        (id \in AcceptedIds /\ timer # "unset") ~> Dispatched(id)

\* C7 witness: the timer callback has just taken a batch of two or more queued
\* mappings, registered without flush, and called the first one's handler.
C7_Witness ==
    /\ lastOp.name = "timer"
    /\ lastOp.st \in {"done", "suspended"}
    /\ Len(lastOp.batch) >= 2
    /\ Dispatched(lastOp.batch[1].id)
    /\ schemas.isSet

\* ---------------------------------------------------------------- C8
\* C8: a processUpdates call that proceeds takes every queued mapping into its
\* batch and empties the queue in the same step, before its first handler
\* call; the batch of a call in flight never changes, a mapping registered
\* meanwhile is not dispatched by that call: it waits in the queue, or is taken
\* by the new processUpdates call of its own flush.
C8_BatchAtomic ==
    [][/\ (CallStep /\ lastOp'.st # "noop")
            => /\ lastOp'.batch = QueueAtCall
               /\ updateQueue' = <<>>
               /\ \A k \in (Len(log) + 1)..Len(log') :
                     log'[k][2] \in Range(Ids(QueueAtCall))
               /\ lastOp'.st = "suspended"
                     => \E d \in drains' \ drains : d.batch = QueueAtCall
       /\ RegisterStep
            => /\ \A d \in drains : d \in drains'
               /\ \A d \in drains' \ drains : d.batch = lastOp'.batch
               /\ lastOp'.pushed
                     => \/ lastOp'.m \in Range(updateQueue')
                        \/ lastOp'.m \in Range(lastOp'.batch)
               /\ (lastOp'.pushed /\ ~lastOp'.flush) => ~HasEventIn(log', lastOp'.m.id)
       /\ ResumeStep
            => /\ updateQueue' = updateQueue
               /\ \A d \in drains' : d.batch \in {e.batch : e \in drains}
               /\ \A k \in (Len(log) + 1)..Len(log') :
                     log'[k][2] \in Range(Ids(lastOp'.batch))
       /\ \A k \in 1..Len(updateQueue') : ~HasEventIn(log', updateQueue'[k].id)]_vars

\* C8 witness: a mapping registered while a batch of two is being dispatched
\* waits in the queue.
C8_Witness ==
    /\ lastOp.name = "registerMapping"
    /\ lastOp.pushed
    /\ lastOp.m \in Range(updateQueue)
    /\ \E d \in drains : Len(d.batch) = 2 /\ HasEvent(d.batch[1].id)

\* ---------------------------------------------------------------- C9
\* The events ev of batch b are those of a sequential dispatch in batch order:
\* the k-th mapping's call begins, then ends, before the next one's begins, and
\* nothing follows a failure.
Sequential(ev, b) ==
    \A p \in 1..Len(ev) :
        LET k == (p + 1) \div 2 IN
        /\ k <= Len(b)
        /\ ev[p][2] = b[k].id
        /\ (p % 2 = 1) => ev[p][1] \in {"begin", "nohandler"}
        /\ (p % 2 = 0) => ev[p][1] \in {"end", "throw"}
        /\ ev[p][1] \in {"nohandler", "throw"} => p = Len(ev)

\* The mappings of b are in the order in which they were enqueued
InEnqueueOrder(b) ==
    \A j, k \in 1..Len(b) :
        j < k => \E x, y \in 1..Len(accepted) :
                    x < y /\ accepted[x] = b[j].id /\ accepted[y] = b[k].id

\* C9: within one batch the mappings are passed to their handlers in the order
\* in which they were enqueued, and the handleUpdate call of one mapping has
\* completed before the call for the next mapping of the batch begins.
C9_SequentialInOrder ==
    /\ \A d \in drains :
          /\ InEnqueueOrder(d.batch)
          /\ Sequential(LogOf(d.batch), d.batch)
          /\ Len(LogOf(d.batch)) = 2 * d.i - 1
    /\ lastOp.batch # <<>>
          => /\ InEnqueueOrder(lastOp.batch)
             /\ Sequential(LogOf(lastOp.batch), lastOp.batch)
             /\ lastOp.st = "done" => Len(LogOf(lastOp.batch)) = 2 * Len(lastOp.batch)

\* C9 witness: a batch of three mappings has been dispatched to its end.
C9_Witness ==
    /\ lastOp.name = "resume"
    /\ lastOp.st = "done"
    /\ Len(lastOp.batch) = 3

\* ---------------------------------------------------------------- C10
\* Mapping id was accepted and is gone: it is not queued, not in a batch in
\* flight, and no handler was or is called for it
LostIn(acc, q, ds, lg, id) ==
    /\ id \in Range(acc)
    /\ id \notin Range(Ids(q))
    /\ \A d \in ds : id \notin Range(Ids(d.batch))
    /\ ~HasEventIn(lg, id)
Lost(id) == LostIn(accepted, updateQueue, drains, log, id)

\* C10: processUpdates fails at the first mapping of its batch whose type has
\* no registered handler: the mappings before it have been dispatched, no
\* handler is called for it, the call ends there, and the mappings after it
\* are neither dispatched, then or later, nor put back on the update queue.
C10_UnknownTypeAbortsBatch ==
    [][/\ (CallStep \/ ResumeStep)
            => LET b == lastOp'.batch IN
               \A k \in 1..Len(b) :
                  (b[k].type \notin handlers /\ \A j \in 1..(k - 1) : b[j].type \in handlers)
                  => /\ \A j \in (k + 1)..Len(b) :
                           ~HasEventIn(log', b[j].id) /\ b[j].id \notin Range(Ids(updateQueue'))
                     /\ HasEventIn(log', b[k].id)
                           => /\ lastOp'.st = "failed"
                              /\ log'[Len(log')] = <<"nohandler", b[k].id>>
                              /\ \A j \in 1..(k - 1) : <<"end", b[j].id>> \in Range(log')
                              /\ \A d \in drains' : d.batch # b
                              /\ \A j \in (k + 1)..Len(b) : LostIn(accepted', updateQueue', drains', log', b[j].id)
                     /\ (\A j \in 1..(k - 1) : <<"end", b[j].id>> \in Range(log'))
                           => HasEventIn(log', b[k].id)
       /\ \A id \in 1..MaxRegs : Lost(id) => LostIn(accepted', updateQueue', drains', log', id)]_vars

\* C10 witness: a batch of three has just failed at its second mapping, whose
\* type has no handler; the first was dispatched and the third is lost.
C10_Witness ==
    /\ lastOp.st = "failed"
    /\ Len(lastOp.batch) = 3
    /\ log[Len(log)] = <<"nohandler", lastOp.batch[2].id>>
    /\ <<"end", lastOp.batch[1].id>> \in Range(log)
    /\ Lost(lastOp.batch[3].id)

\* ---------------------------------------------------------------- C11
\* The processUpdates calls in progress that a timer firing started
TimerDrains == {d \in drains : d.src = "timer"}

\* C11: timer-driven drain cycles never overlap: at most one processUpdates
\* call started by a timer firing is in progress, and while one is in progress
\* the timer is not armed, so no further firing can start another.
C11_TimerDrainsNeverOverlap ==
    /\ Cardinality(TimerDrains) <= 1
    /\ TimerDrains # {} => timer = "running"

\* C11 witness: the processUpdates call of a timer firing is suspended on a
\* handler's I/O while a mapping registered meanwhile waits in the queue.
C11_Witness ==
    /\ TimerDrains # {}
    /\ updateQueue # <<>>
    /\ schemas.isSet

\* ---------------------------------------------------------------- C12
\* C12 as stated: in every reachable state at most one processUpdates call is
\* in progress, whoever started it (a timer firing or a registerMapping call
\* with flush).
C12_AtMostOneDrain == Cardinality(drains) <= 1

\* ---------------------------------------------------------------- C13
\* C13 as stated: the drain timer is never stopped once started: in every
\* reachable state it is not yet started, scheduled to fire, or waiting for the
\* processUpdates call of its current firing, after which it is re-armed;
\* in no state is it left without a next firing.
C13_TimerNeverStopped == timer \in {"unset", "armed", "running"}

\* ---------------------------------------------------------------- C14
\* A registerMapping call with flush that accepted its mapping while the
\* resolved schema table was set
FlushStep == RegisterStep /\ lastOp'.pushed /\ lastOp'.flush /\ schemas.isSet

\* C14 as stated: when registerMapping(mapping, flush = true) accepts the
\* mapping and the table is set, the queue has been drained when it returns:
\* every queued mapping, the new one included, is off the queue and its handler
\* update has been carried out.
C14_FlushDrainsSynchronously ==
    [][FlushStep =>
        /\ updateQueue' = <<>>
        /\ lastOp'.st = "done"
        /\ \A k \in 1..Len(lastOp'.batch) :
              <<"end", lastOp'.batch[k].id>> \in Range(log')]_vars

\* C14 amended: when registerMapping(mapping, flush = true) accepts the mapping
\* and the table is set, then when it returns every queued mapping, the new one
\* included, is off the queue and in the batch of a processUpdates call that
\* was started without waiting for the timer and has reached its first
\* mapping; the handler updates are carried out as the handlers' I/O completes,
\* which may be after registerMapping has returned: each mapping of the batch
\* has been handled, or waits in the call in progress, or the call has failed.
C14_FlushStartsDrain ==
    [][FlushStep =>
        LET b == lastOp'.batch IN
        /\ updateQueue' = <<>>
        /\ b = Append(updateQueue, lastOp'.m)
        /\ timer' = timer
        /\ HasEventIn(log', b[1].id)
        /\ lastOp'.st \in {"done", "suspended", "failed"}
        /\ lastOp'.st = "done" =>
              \A k \in 1..Len(b) : <<"end", b[k].id>> \in Range(log')
        /\ lastOp'.st = "suspended" =>
              \E d \in drains' \ drains :
                 /\ d.src = "flush" /\ d.batch = b
                 /\ \A k \in 1..Len(b) :
                       IF k < d.i THEN <<"end", b[k].id>> \in Range(log')
                       ELSE <<"end", b[k].id>> \notin Range(log')]_vars

\* C14 witness: a registerMapping with flush has returned with two mappings
\* taken off the queue while the handler update of the first is still awaited.
C14_Witness ==
    /\ lastOp.name = "registerMapping"
    /\ lastOp.flush /\ lastOp.pushed
    /\ schemas.isSet
    /\ lastOp.st = "suspended"
    /\ Len(lastOp.batch) >= 2
    /\ updateQueue = <<>>
    /\ <<"end", lastOp.batch[1].id>> \notin Range(log)

\* ---------------------------------------------------------------- C15
\* The processUpdates call of batch b has just completed and overlapped no
\* other call: none is in progress, and the handler events of b are the last
\* events of the history, with no event of another batch among them
RanAlone(b) ==
    /\ drains = {}
    /\ \E s \in 0..Len(log) :
          \A p \in 1..Len(log) : (p > s) <=> (log[p][2] \in Range(Ids(b)))

\* Mapping k of batch b assigns a schema the table resolves, and no later
\* mapping of b is for the same Uri
AssignsLast(b, k) ==
    /\ b[k].schema # None
    /\ ResolveSchema(b[k].schema, schemas) # None
    /\ \A j \in (k + 1)..Len(b) : b[j].uri # b[k].uri

DownloadCall == lastCall'.n = lastCall.n + 1

\* C16: an updateSchemaFromRemote call made without a version, or with the
\* version the cache key holds, while the destination file has content, is a
\* cache hit: it fetches nothing from the network, writes nothing to the
\* destination, leaves the version cache as it was and returns.
C16_CacheHitNoOp ==
    [][(DownloadCall
          /\ (lastCall'.version = None
                \/ lastCall'.version = globalState[CacheKey[lastCall'.kind]])
          /\ files[lastCall'.kind] # None)
        => /\ lastCall'.fetches = 0
           /\ lastCall'.result = "returned"
           /\ files' = files
           /\ globalState' = globalState]_vars

\* C16 witness: a call without a version found a file and a cached version,
\* and made no fetch.
C16_Witness ==
    /\ lastCall.by = "direct"
    /\ lastCall.version = None
    /\ lastCall.cachedVersion # None
    /\ lastCall.cachedContent # None
    /\ lastCall.fetches = 0
    /\ files[lastCall.kind] = lastCall.cachedContent

\* ---------------------------------------------------------------- C17
\* A second call for the same kind with the same version as the call before
\* it, made while the destination file has content
SecondCall ==
    /\ DownloadCall
    /\ lastCall.n >= 1
    /\ lastCall'.kind = lastCall.kind
    /\ lastCall'.version = lastCall.version
    /\ files[lastCall'.kind] # None

\* C17 as stated: whatever the outcome of the first call (download, fallback
\* to the cached content after a failed fetch, rejected version-cache update),
\* a second call with the same version and with cached content present makes
\* no network fetch.
C17_SecondCallNeverFetches == [][SecondCall => lastCall'.fetches = 0]_vars

\* C17 amended: a second call with the same version and with cached content
\* present makes no network fetch when the first call was a cache hit or ended
\* with the version stored in the version cache (or no version is supplied);
\* when the first call found its version outdated and did not store it (it
\* fell back to the cached content after a failure, or its version-cache
\* update was rejected), the key is still outdated and the second call
\* fetches again.
C17_SecondCallFetchesUnlessStored ==
    [][SecondCall =>
        lastCall'.fetches =
            IF Outdated(lastCall.version, lastCall.cachedVersion)
                  /\ lastCall.out # "stored"
            THEN 1 ELSE 0]_vars

\* C17 witness: the first call fell back to the cached content after a failed
\* fetch, and the second call with the same version has fetched again.
C17_Witness ==
    /\ lastCall.n = 2
    /\ lastCall.before = <<lastCall.kind, lastCall.version, "fetchFailed">>
    /\ lastCall.cachedContent # None
    /\ lastCall.fetches = 1

\* ---------------------------------------------------------------- C18
\* C18: when a call fetches and the fetch, the parse or the write (directory
\* creation or file write) fails, then with cached content the call returns
\* without error and leaves the cached file and the version key as they were;
\* without cached content the failure propagates to the caller.
C18_FailureFallsBackToCache ==
    [][(DownloadCall
          /\ lastCall'.out \in {"fetchFailed", "parseFailed", "mkdirFailed", "writeFailed"})
        => /\ lastCall'.fetches = 1
           /\ files' = files
           /\ globalState' = globalState
           /\ lastCall'.result =
                 IF files[lastCall'.kind] # None THEN "returned" ELSE "thrown"]_vars

\* C18 witness: a download of a new version failed at parsing while an older
\* file was cached, and the call returned with the file and key untouched.
C18_Witness ==
    /\ lastCall.out = "parseFailed"
    /\ lastCall.cachedContent # None
    /\ lastCall.version = "v2"
    /\ lastCall.result = "returned"
    /\ files[lastCall.kind] = lastCall.cachedContent
    /\ globalState[CacheKey[lastCall.kind]] = lastCall.cachedVersion

\* ---------------------------------------------------------------- C19
\* C19: when the fetch and the file write succeed but the version-cache update
\* is rejected, updateSchemaFromRemote returns without error with the new
\* content at the destination (the version key keeps its old value), and
\* getDefaultSchemas adds the kind to its table, which becomes the resolved
\* table.
C19_CacheRejectionNonFatal ==
    [][/\ (DownloadCall /\ lastCall'.out = "cacheRejected")
            => /\ lastCall'.result = "returned"
               /\ files'[lastCall'.kind] = SchemaFile(lastCall'.version)
               /\ globalState' = globalState
               /\ lastCall'.kind \in download'.table
       /\ download'.pc = "resolved"
            => schemas' = [isSet |-> TRUE, keys |-> download'.table]]_vars

\* C19 witness: getDefaultSchemas has returned a table holding the cfn schema
\* that was downloaded for the first time while the version cache rejected the
\* update.
C19_Witness ==
    /\ download.pc = "resolved"
    /\ "cfn" \in schemas.keys
    /\ files["cfn"] = SchemaFile("v2")
    /\ globalState[CacheKey["cfn"]] = None
    /\ download.version = "v2"

\* ---------------------------------------------------------------- C20
\* C20 as stated: whenever the manifest fetch yields no version, the table
\* getDefaultSchemas returns has neither a cfn nor a sam entry, whatever the
\* local cache holds, and a table is still returned.
C20_NoManifestNoGoformation ==
    /\ (download.pc \in {"done", "resolved"} /\ download.version = None)
          => download.table \cap {"cfn", "sam"} = {}
    /\ download.pc = "resolved" => schemas = [isSet |-> TRUE, keys |-> download.table]

\* C20 amended: when the manifest fetch yields no version, the update of the
\* cfn (sam) schema is a cache hit whenever a cached file exists: it fetches
\* nothing and the kind is entered in the table; without a cached file the
\* kind is entered only if the download from the version-less URL goes
\* through, and is left out otherwise.  A table is returned in every case.
C20_NoManifestUsesCache ==
    [][/\ (DownloadCall /\ lastCall'.kind \in {"cfn", "sam"} /\ download.version = None)
            => /\ files[lastCall'.kind] # None
                  => /\ lastCall'.fetches = 0
                     /\ files' = files
                     /\ lastCall'.kind \in download'.table
               /\ files[lastCall'.kind] = None
                  => (lastCall'.kind \in download'.table
                        <=> lastCall'.out \in {"stored", "cacheRejected"})
       /\ download'.pc = "resolved"
            => schemas' = [isSet |-> TRUE, keys |-> download'.table]]_vars

\* C20 witness: the manifest gave no version, cached cfn and sam files
\* existed, and the returned table holds both.
C20_Witness ==
    /\ download.pc = "resolved"
    /\ download.version = None
    /\ {"cfn", "sam"} \subseteq schemas.keys
    /\ files["cfn"] = SchemaFile("v1")
    /\ files["sam"] = SchemaFile("v1")

\* ---------------------------------------------------------------- C21
\* The step of getDefaultSchemas that tries a buildspec source (from is
\* "buildspec" for the CloudFront source, "fallback" for the S3 source)
BuildspecStep(from) == download.pc = from /\ download'.pc # from

\* In that step getFromUrl threw: no updateSchemaFromRemote call was made
GetFromUrlThrew == lastCall' = lastCall

\* In that step the fetch from the source failed: getFromUrl threw or gave
\* nothing, or the fetch inside updateSchemaFromRemote gave nothing
SourceFetchFailed ==
    \/ GetFromUrlThrew
    \/ DownloadCall /\ (lastCall'.version = None \/ lastCall'.out = "fetchFailed")

\* C21 as stated: whenever the fetch from the primary buildspec source fails,
\* whether or not a cached buildspec file exists, the fallback source is
\* attempted; and when the fallback attempt succeeds the table has a
\* buildspec entry.
C21_FallbackAlwaysAttempted ==
    [][/\ (BuildspecStep("buildspec") /\ SourceFetchFailed) => download'.pc = "fallback"
       /\ (BuildspecStep("fallback") /\ DownloadCall /\ lastCall'.result = "returned")
            => "buildspec" \in download'.table]_vars

\* C21 amended: the fallback source is attempted exactly when the attempt on
\* the primary source throws: getFromUrl throws, or updateSchemaFromRemote
\* fails and there is no cached buildspec file.  With a cached file a failing
\* updateSchemaFromRemote returns the cached file, the table gets its
\* buildspec entry and the fallback is not attempted.  When the fallback
\* attempt returns, the table has a buildspec entry.
C21_FallbackWhenPrimaryThrows ==
    [][/\ BuildspecStep("buildspec")
            => /\ download'.pc = "fallback"
                    <=> (GetFromUrlThrew \/ lastCall'.result = "thrown")
               /\ (DownloadCall /\ lastCall'.result = "thrown")
                    => /\ files["buildspec"] = None
                       /\ lastCall'.out \notin {"hit", "stored", "cacheRejected"}
               /\ (DownloadCall /\ files["buildspec"] # None)
                    => /\ download'.pc = "done"
                       /\ "buildspec" \in download'.table
       /\ (BuildspecStep("fallback") /\ DownloadCall /\ lastCall'.result = "returned")
            => /\ "buildspec" \in download'.table
               /\ download'.pc = "done"]_vars

\* C21 witness: the fetch from the primary source failed with no cached file,
\* the fallback source was attempted and its download went through, and the
\* returned table has the buildspec entry.
C21_Witness ==
    /\ download.pc = "resolved"
    /\ "buildspec" \in schemas.keys
    /\ lastCall.kind = "buildspec"
    /\ lastCall.out = "stored"
    /\ lastCall.cachedContent = None
    /\ lastCall.before = <<"buildspec", "h1", "fetchFailed">>

\* ---------------------------------------------------------------- C22
\* C22: when the attempt on the primary buildspec source and the attempt on
\* the fallback source both fail and no cached buildspec file exists,
\* getDefaultSchemas completes (the outer catch takes the failure) and its
\* table has no buildspec entry.
C22_BothSourcesFail ==
    [][(/\ BuildspecStep("fallback")
        /\ files["buildspec"] = None
        /\ GetFromUrlThrew \/ lastCall'.out \in Outcomes \ {"stored", "cacheRejected"})
          => /\ download'.pc = "done"
             /\ "buildspec" \notin download'.table
             /\ files'["buildspec"] = None]_vars

\* C22 witness: both sources failed without a cached file and the resolved
\* table has no buildspec entry.
C22_Witness ==
    /\ download.pc = "resolved"
    /\ "buildspec" \notin schemas.keys
    /\ files["buildspec"] = None
    /\ lastCall.kind = "buildspec"
    /\ lastCall.result = "thrown"
    /\ lastCall.before = <<"buildspec", "h1", "parseFailed">>

\* ---------------------------------------------------------------- C23
\* The positions of getDefaultSchemas at which the kind's update has been
\* attempted
Attempted(kind) ==
    CASE kind = "cfn" -> {"sam", "buildspec", "fallback", "done", "resolved"}
      [] kind = "sam" -> {"buildspec", "fallback", "done", "resolved"}
      [] OTHER -> {"fallback", "done", "resolved"}

\* C23: the kinds are attempted one after the other whatever the outcome of
\* the kinds before (cfn, then sam, then buildspec), and a kind is entered in
\* the table exactly by an updateSchemaFromRemote call for it that returns
\* without throwing.
C23_KindsIndependent ==
    [][/\ download.pc = "cfn" /\ download'.pc # "cfn"
            => download'.pc = "sam" /\ DownloadCall /\ lastCall'.kind = "cfn"
       /\ download.pc = "sam" /\ download'.pc # "sam"
            => download'.pc = "buildspec" /\ DownloadCall /\ lastCall'.kind = "sam"
       /\ download.pc = "buildspec" /\ download'.pc # "buildspec"
            => /\ download'.pc \in {"fallback", "done"}
               /\ DownloadCall => lastCall'.kind = "buildspec"
       /\ download'.table =
             IF DownloadCall /\ lastCall'.result = "returned"
             THEN download.table \cup {lastCall'.kind}
             ELSE download.table
       /\ \A kind \in download'.table : download'.pc \in Attempted(kind)]_vars

\* C23 witness: the cfn update threw, the sam update went through and both
\* buildspec attempts threw; the resolved table holds the sam entry alone.
C23_Witness ==
    /\ download.pc = "resolved"
    /\ schemas.keys = {"sam"}
    /\ files["cfn"] = None
    /\ files["sam"] = SchemaFile("v2")
    /\ files["buildspec"] = None
    /\ lastCall.kind = "buildspec"
    /\ lastCall.result = "thrown"

\* ------------------------------------------------- JSON handler steps
\* The entries of the setting with the given url
EntriesWithUrl(settings, url) == {k \in 1..Len(settings) : settings[k].url = url}

\* The events a step adds to the history
NewEvents == {log'[k] : k \in (Len(log) + 1)..Len(log')}

\* A step in which the config.update of JsonSchemaHandler.handleUpdate for
\* mapping lastOp'.m completed and the call returned
JsonUpdated ==
    /\ ResumeStep
    /\ lastOp'.m.type = "json"
    /\ <<"end", lastOp'.m.id>> \in NewEvents
    /\ \E d \in drains : d.pc = "update" /\ d.batch[d.i] = lastOp'.m

\* ---------------------------------------------------------------- C24
\* C24: handler calls following one another, a completed handleUpdate that
\* assigns a resolvable schema leaves exactly one entry with the schema's url
\* whose fileMatch holds the document's path and every path it held before:
\* the first such update appends a new entry, later ones append the path to
\* the entry; no url of the table ever has two entries.
C24_FanIn ==
    [][/\ \A kind \in JsonTable :
             Cardinality(EntriesWithUrl(jsonSettings', SchemaLocation[kind])) <= 1
       /\ (JsonUpdated /\ ResolveSchema(lastOp'.m.schema, schemas) # None) =>
            LET url == ResolveSchema(lastOp'.m.schema, schemas)
                path == NormalizeVSCodeUri[lastOp'.m.uri]
                found == EntriesWithUrl(jsonSettings, url)
            IN /\ Cardinality(EntriesWithUrl(jsonSettings', url)) = 1
               /\ found = {} =>
                     jsonSettings' = Append(jsonSettings, [fileMatch |-> <<path>>, url |-> url])
               /\ \A k \in found :
                     jsonSettings' = [jsonSettings EXCEPT ![k].fileMatch = Append(@, path)]]_vars

\* C24 witness: both JSON documents were assigned the cfn schema and share its
\* one entry, next to the entry the user wrote.
C24_Witness ==
    /\ Cardinality(EntriesWithUrl(jsonSettings, SchemaLocation["cfn"])) = 1
    /\ \E k \in 1..Len(jsonSettings) :
          /\ jsonSettings[k].url = SchemaLocation["cfn"]
          /\ jsonSettings[k].fileMatch = <<"/ws/doc1.json", "/ws/doc3.json">>
    /\ UserEntry \in Range(jsonSettings)
    /\ drains = {}

\* ---------------------------------------------------------------- C25
\* The pairs <<url, path>> of the setting for paths other than the given one
OtherMatches(settings, path) ==
    UNION {{<<settings[k].url, p>> : p \in Range(settings[k].fileMatch) \ {path}} :
              k \in 1..Len(settings)}

\* C25: a completed handleUpdate without a schema leaves the document's path
\* in no entry's fileMatch and no entry with an empty fileMatch, so isMapped
\* of the document is false; every other path stays in the entries it was in,
\* and only entries that held nothing but the path are gone.
C25_Removal ==
    [][(JsonUpdated /\ lastOp'.m.schema = None) =>
          LET path == NormalizeVSCodeUri[lastOp'.m.uri] IN
          /\ \A k \in 1..Len(jsonSettings') :
                /\ path \notin Range(jsonSettings'[k].fileMatch)
                /\ Len(jsonSettings'[k].fileMatch) > 0
          /\ ~JsonIsMapped(jsonSettings', lastOp'.m.uri)
          /\ OtherMatches(jsonSettings', path) = OtherMatches(jsonSettings, path)
          /\ Len(jsonSettings') =
                Cardinality({k \in 1..Len(jsonSettings) :
                                Range(jsonSettings[k].fileMatch) \ {path} # {}})]_vars

\* C25 witness: the schema of the first JSON document was removed from the
\* cfn entry it shared with the other JSON document, which keeps its path.
C25_Witness ==
    /\ lastOp.name = "resume"
    /\ lastOp.m.uri = "doc1" /\ lastOp.m.schema = None
    /\ <<"end", lastOp.m.id>> \in Range(log)
    /\ \E k \in 1..Len(jsonSettings) :
          /\ jsonSettings[k].url = SchemaLocation["cfn"]
          /\ jsonSettings[k].fileMatch = <<"/ws/doc3.json">>
    /\ ~IsMapped("doc1")
    /\ IsMapped("doc3")

\* ---------------------------------------------------------------- C26
\* C26: no entry of the 'json.schemas' setting holds the same path twice in
\* its fileMatch.
C26_NoDuplicatePaths ==
    \A k \in 1..Len(jsonSettings) :
       \A i, j \in 1..Len(jsonSettings[k].fileMatch) :
          i # j => jsonSettings[k].fileMatch[i] # jsonSettings[k].fileMatch[j]

\* ---------------------------------------------------------------- C27
\* A processUpdates call that runs alone, from a result r of the call so far
\* to its completion: whenever it is suspended on the I/O of the handler call
\* for mapping i of the batch, that I/O completes with outcome oks[i]
RECURSIVE RunFrom(_, _, _, _, _)
RunFrom(r, batch, oks, hs, sch) ==
    IF r.st # "suspended" THEN r
    ELSE LET d == [src |-> "timer", batch |-> batch, i |-> r.i, pc |-> r.pc, w |-> r.w]
         IN RunFrom(ResumeDrain(r.W, d, oks[r.i], hs, sch), batch, oks, hs, sch)

\* processUpdates() on queue q from its call to its completion, run alone
DrainAll(q, W, oks, hs, sch) ==
    LET r == ProcessUpdates(q, W, hs, sch) IN
    RunFrom([W |-> r.W, st |-> r.st, i |-> r.i, pc |-> r.pc, w |-> r.w],
            r.batch, oks, hs, sch)

\* The handlers' backing stores in world W
StoreOf(W) == [json |-> W.json, yaml |-> W.yaml, ext |-> W.ext]

\* The stores after the two mappings of q were drained as one batch
Batched(q, W, oks, hs, sch) == StoreOf(DrainAll(q, W, oks, hs, sch).W)

\* The stores after the first mapping of q was drained and then the second
Separately(q, W, oks, hs, sch) ==
    LET first == DrainAll(<<q[1]>>, W, <<oks[1]>>, hs, sch) IN
    StoreOf(DrainAll(<<q[2]>>, first.W, <<oks[2]>>, hs, sch).W)

\* A step in which processUpdates takes a batch of two mappings while no other
\* call is in progress
TakesTwo == CallStep /\ drains = {} /\ schemas.isSet /\ Len(QueueAtCall) = 2

\* C27 as stated: for any two accepted mappings, draining both as one batch
\* leaves the backing stores as draining the first and then the second does,
\* whatever the handlers meet.
C27_BatchingTransparent ==
    [][TakesTwo =>
          \A oks \in [1..2 -> BOOLEAN] :
             Batched(QueueAtCall, World, oks, handlers, schemas)
                = Separately(QueueAtCall, World, oks, handlers, schemas)]_vars

\* C27 amended: the two ways leave the same backing stores when the handler
\* call for the first mapping does not throw.  When it throws (no handler for
\* its type, or its config.update is rejected) the batch ends there: the
\* stores are as after draining the first mapping alone, and the second
\* mapping, which a drain of its own would apply, is not applied.
C27_BatchingTransparentUnlessThrow ==
    [][TakesTwo =>
          \A oks \in [1..2 -> BOOLEAN] :
             LET first == DrainAll(<<QueueAtCall[1]>>, World, <<oks[1]>>, handlers, schemas)
             IN IF first.st = "failed"
                THEN Batched(QueueAtCall, World, oks, handlers, schemas) = StoreOf(first.W)
                ELSE Batched(QueueAtCall, World, oks, handlers, schemas)
                        = Separately(QueueAtCall, World, oks, handlers, schemas)]_vars

\* C27 witness: the timer has taken a batch of an assignment and a removal for
\* the same JSON document that were registered one after the other.
C27_Witness ==
    /\ lastOp.name = "timer"
    /\ Len(lastOp.batch) = 2
    /\ lastOp.batch[1].uri = "doc1" /\ lastOp.batch[1].schema = "cfn"
    /\ lastOp.batch[2].uri = "doc1" /\ lastOp.batch[2].schema = None
    /\ Cardinality(drains) = 1

\* ---------------------------------------------------------------- C28
\* Mapping m names a schema key that the resolved table does not have
Unresolvable(m) == m.schema # None /\ m.schema \notin schemas.keys

\* C28: the handler call for a mapping whose schema key is not in the table
\* returns without throwing and writes nothing: the 'json.schemas' setting
\* changes only by the cleanup or by the config.update of a mapping that
\* removes or resolves, the YAML extension's schemas do not change, and the
\* dispatch goes on with the next mapping of the batch.
C28_UnresolvableSkipped ==
    [][/\ \A k \in 1..Len(lastOp'.batch) :
             LET m == lastOp'.batch[k] IN
             Unresolvable(m) =>
                /\ <<"throw", m.id>> \notin NewEvents
                /\ (<<"end", m.id>> \in NewEvents /\ k < Len(lastOp'.batch))
                      => \E kind \in {"begin", "nohandler"} :
                            <<kind, lastOp'.batch[k + 1].id>> \in NewEvents
                /\ (<<"end", m.id>> \in NewEvents /\ m.type = "yaml")
                      => yamlSchemas' = yamlSchemas
       /\ jsonSettings' # jsonSettings
             => /\ lastOp'.name = "resume"
                /\ \E d \in drains :
                      /\ d.batch[d.i] = lastOp'.m
                      /\ \/ d.pc = "cleaning" /\ jsonSettings' = CleanResourceMappings(jsonSettings)
                         \/ d.pc = "update" /\ jsonSettings' = d.w /\ ~Unresolvable(lastOp'.m)]_vars

\* C28 witness: a batch of a JSON and a YAML mapping with the unresolvable sam
\* key followed by a JSON mapping with the cfn key was dispatched to its end;
\* only the last document is mapped.
C28_Witness ==
    /\ lastOp.st = "done"
    /\ Len(lastOp.batch) = 3
    /\ lastOp.batch[1].uri = "doc1" /\ lastOp.batch[1].schema = "sam"
    /\ lastOp.batch[2].uri = "doc2" /\ lastOp.batch[2].schema = "sam"
    /\ lastOp.batch[3].uri = "doc3" /\ lastOp.batch[3].schema = "cfn"
    /\ \A k \in 1..3 : <<"end", lastOp.batch[k].id>> \in Range(log)
    /\ yamlExtension
    /\ ~IsMapped("doc1") /\ ~IsMapped("doc2") /\ IsMapped("doc3")

\* ---------------------------------------------------------------- C29
\* The handler calls that a step suspends on activateYamlExtension: those
\* awaiting the activation after the step that did not await it before
NewActivations ==
    {d \in drains' : /\ d.pc = "activate"
                     /\ ~\E e \in drains : e.batch = d.batch /\ e.i = d.i /\ e.pc = "activate"}

C30_CleanOnce ==
    [][/\ jsonClean' # jsonClean
            => <<jsonClean, jsonClean'>> \in {<<"never", "pending">>, <<"pending", "done">>}
       /\ Cardinality({d \in drains' : d.pc = "cleaning"}) <= 1
       /\ (\E d \in drains' : d.pc = "cleaning") <=> jsonClean' = "pending"
       /\ \A d \in drains' : d.pc = "update" => jsonClean' = "done"
       /\ \A k \in 1..Len(lastOp'.batch) :
             (lastOp'.batch[k].type = "json" /\ <<"end", lastOp'.batch[k].id>> \in NewEvents)
                => jsonClean' = "done"]_vars

\* C30 witness: two overlapping processUpdates calls are in JSON handleUpdate
\* calls that both await their config.update, after the one cleanup that the
\* first of them started.
C30_Witness ==
    /\ jsonClean = "done"
    /\ \E d, e \in drains : d # e /\ d.pc = "update" /\ e.pc = "update"

\* ---------------------------------------------------------------- C32
\* The steps of the try block a call that fetches did not complete
FailedBeforeKey == {"fetchFailed", "parseFailed", "mkdirFailed", "writeFailed"}

\* C32: in every updateSchemaFromRemote call, a failed fetch, parse, directory
\* creation or file write leaves the version cache as it was; the cache
\* changes only in the key of the call's kind, only to the version passed to
\* the call, and only when the call has written the downloaded file.
C32_KeyWrittenAfterFile ==
    [][DownloadCall =>
          /\ lastCall'.out \in FailedBeforeKey => globalState' = globalState
          /\ \A key \in CacheKeys :
                globalState'[key] # globalState[key]
                   => /\ key = CacheKey[lastCall'.kind]
                      /\ globalState'[key] = lastCall'.version
                      /\ lastCall'.out = "stored"
                      /\ files'[lastCall'.kind] = SchemaFile(lastCall'.version)]_vars

\* C32 witness: a call replaced the cached v1 file by the v2 download and then
\* set the key to v2, after an earlier call for the same version whose file
\* write failed and left the key at v1.
C32_Witness ==
    /\ lastCall.n = 2
    /\ lastCall.out = "stored"
    /\ lastCall.kind = "cfn" /\ lastCall.version = "v2"
    /\ lastCall.cachedVersion = "v1"
    /\ lastCall.before = <<"cfn", "v2", "writeFailed">>
    /\ globalState[CacheKey["cfn"]] = "v2"
    /\ files["cfn"] = SchemaFile("v2")

\* ---------------------------------------------------------------- C33
\* C33: no registerMapping removes an ownership entry, and every entry has an
\* owner; a removal registered by the owner of a Uri leaves the Uri owned by
\* that owner, with no schema; and a removal from anyone else for a Uri whose
\* entry has no schema changes nothing and is not enqueued.
C33_OwnershipNeverReleased ==
    [][/\ \A u \in Uris :
             /\ OwnedHas(owned, u) => OwnedHas(owned', u)
             /\ OwnedHas(owned', u) => owned'[u].owner # None
       /\ RegisterStep =>
             LET m == lastOp'.m
                 prev == lastOp'.prev
             IN /\ (prev # NoMapping /\ m.owner = prev.owner /\ m.schema = None)
                      => /\ owned'[m.uri].owner = prev.owner
                         /\ owned'[m.uri].schema = None
                /\ (prev # NoMapping /\ m.owner # prev.owner
                       /\ prev.schema = None /\ m.schema = None)
                      => /\ ~lastOp'.pushed
                         /\ owned' = owned
                         /\ updateQueue' = updateQueue]_vars

\* C33 witness: featureB's removal for the document that featureA owns, and
\* for which featureA registered a removal, was just refused.
C33_Witness ==
    /\ lastOp.name = "registerMapping"
    /\ ~lastOp.pushed
    /\ lastOp.m.owner = "featureB" /\ lastOp.m.schema = None
    /\ lastOp.prev.owner = "featureA" /\ lastOp.prev.schema = None
    /\ owned[lastOp.m.uri].owner = "featureA"
    /\ owned[lastOp.m.uri].schema = None

\* ---------------------------------------------------------------- C35
\* The number of handleUpdate calls the history has for the mapping
Begins(lg, id) == Cardinality({k \in 1..Len(lg) : lg[k] = <<"begin", id>>})

\* C35: whatever timer-driven and flush-driven processUpdates calls
\* interleave, every accepted mapping is passed to a handler at most once: no
\* mapping is in two batches or in a batch and in the queue, a queued mapping
\* has not been dispatched, and a mapping taken off the queue never comes back
\* to it.
C35_AtMostOnce ==
    [][/\ \A id \in Range(accepted') : Begins(log', id) <= 1
       /\ \A j, k \in 1..Len(updateQueue') :
             j # k => updateQueue'[j].id # updateQueue'[k].id
       /\ \A k \in 1..Len(updateQueue') :
             /\ ~HasEventIn(log', updateQueue'[k].id)
             /\ \A d \in drains' : updateQueue'[k].id \notin Range(Ids(d.batch))
       /\ \A d, e \in drains' :
             d # e => Range(Ids(d.batch)) \cap Range(Ids(e.batch)) = {}
       /\ \A id \in Range(accepted) :
             id \notin Range(Ids(updateQueue)) => id \notin Range(Ids(updateQueue'))]_vars

\* C35 witness: a timer-driven and a flush-driven processUpdates call are in
\* progress at once, each in the handler call of a mapping of its own batch,
\* while a third mapping waits in the queue.
C35_Witness ==
    /\ \E d, e \in drains :
          /\ d.src = "timer" /\ e.src = "flush"
          /\ Begins(log, d.batch[d.i].id) = 1
          /\ Begins(log, e.batch[e.i].id) = 1
    /\ Len(updateQueue) = 1

\* ---------------------------------------------------------------- C34
\* C34: handleUpdate calls for one Uri never overlap: the call for an earlier
\* registered mapping has completed before the call for a later one starts,
\* so no two processUpdates calls are at once inside handler calls for the
\* same Uri.
C34_PerUriOrder ==
    \A d, e \in drains :
       d # e => d.batch[d.i].uri # e.batch[e.i].uri

\* ---------------------------------------------------------------- C36
\* The entries of the setting whose fileMatch holds the path
EntriesWithPath(settings, path) ==
    {k \in 1..Len(settings) : path \in Range(settings[k].fileMatch)}

\* C36: starting from an empty 'json.schemas' list, every path is in the
\* fileMatch of at most one entry of the setting.
C36_OneSchemaPerPath ==
    UserEntry \notin Range(jsonSettings) =>
       \A u \in Uris :
          Cardinality(EntriesWithPath(jsonSettings, NormalizeVSCodeUri[u])) <= 1

\* ---------------------------------------------------------------- C31
\* A step of the registry: lastRegistry' holds the call
RegistryStep == lastRegistry'.name # "none"

\* The schema one registry holds for a path
SchemaOf(path, registry, map) == MapGet(map[path].entries, registry)

\* What a call does and leaves alone, given the registries that count as absent
RegistryRoundTrip(absent) ==
    LET op == lastRegistry'
        p  == op.path
        r  == op.registry
    IN  /\ r \in absent => schemaMap' = schemaMap
        /\ r \notin absent =>
              /\ \A q \in YamlPaths \ {p} :
                    /\ schemaMap'[q] = schemaMap[q]
                    /\ GetSchemas(q, schemaMap') = GetSchemas(q, schemaMap)
              /\ \A r2 \in Registries \ {r} :
                    SchemaOf(p, r2, schemaMap') = SchemaOf(p, r2, schemaMap)
              /\ op.name = "assignSchema" => GetSchemas(p, schemaMap') # None
        /\ op.assigned[p] \subseteq absent => GetSchemas(p, schemaMap') = None
        /\ GetSchemas(p, schemaMap') \in
              {None} \cup {SchemaOf(p, a, schemaMap') : a \in op.assigned[p]}

\* C31 as stated: after assignSchema with a defined registry getSchema(path)
\* returns a schema; once every registry that assigned to the path has
\* removed, getSchema(path) is undefined; getSchema returns at most one schema,
\* one that a registry assigned; a call for one (path, registry) leaves every
\* other path and every other registry of the path unchanged; a call with an
\* undefined registry changes nothing
C31_RegistryRoundTrip ==
    [][RegistryStep => RegistryRoundTrip({None})]_vars

\* C31 amended: the same, for a registry that is a non-empty string; a call
\* with an undefined or an empty registry changes nothing
C31_RegistryRoundTripNonEmpty ==
    [][RegistryStep => RegistryRoundTrip({None, ""})]_vars

\* featureA and featureB both assigned to a path, featureA removed: the path
\* still has featureB's schema, and the other path keeps its own
C31_Witness ==
    /\ lastRegistry.name = "removeSchema"
    /\ lastRegistry.registry = "featureA"
    /\ lastRegistry.path = "/ws/doc2.yaml"
    /\ lastRegistry.assigned["/ws/doc2.yaml"] = {"featureB"}
    /\ GetSchemas("/ws/doc2.yaml", schemaMap) = ApplyScheme(SchemaLocation["cfn"])
    /\ GetSchemas("/ws/other.yaml", schemaMap) = ApplyScheme(SchemaLocation["sam"])

====
